---- MODULE Spec2Model ----
(***************************************************************************)
(* Model of the notification relay of src/src/index.ts: the registry       *)
(* userChannels (Map<string, Set<WebSocketClient>>), the credential store  *)
(* apiKeys (Map<string, string>), the per-connection handlers (message,    *)
(* pong, close), the two HTTP handlers (POST /notify, POST /set) and the   *)
(* periodic cleanup sweep.  Node runs every handler to completion on one   *)
(* event loop and none of them awaits anything that yields, so a handler   *)
(* is one atomic action.                                                   *)
(***************************************************************************)
EXTENDS Integers, Sequences, FiniteSets, TLC

(* ------------------------------ bounds -------------------------------- *)
\* WebSocket objects reachable at the same time.
MaxSockets == 2
\* Longest `websites` array of a POST /notify body.
MaxSites == 1

(* ------------------------------ values -------------------------------- *)
\* JavaScript undefined: a missing property, a missing header, Map.get miss.
Undefined == "<undefined>"

\* The strings of the modelled requests.  z.string() accepts every string,
\* the empty one included: "" is among the website urls and the api keys.
\* The account ids are two non-empty ones.
DroplertIds == {"acct1", "acct2"}
WebsiteUrls == {"", "https://a.com"}
ApiKeys == {"", "k1", "k2"}

\* JavaScript truthiness of a string-or-undefined value.
Truthy(x) == x # Undefined /\ x # ""

\* The websiteUrl values of the modelled POST /set bodies.
SlotUrls == {"https://a.com"}

Sockets == 1..MaxSockets

\* POST /set adds a new plain object {droplertId, websiteUrl, isAlive: true}
\* on every call (index.ts:226-227).  Such an object is never changed and
\* never removed, and no handler reads the size of a set except to compare
\* it with 0, so placeholders with the same two fields are indistinguishable:
\* the model keeps one object per (droplertId, websiteUrl) pair.
SlotTags == DroplertIds \X SlotUrls
Slots == (MaxSockets + 1)..(MaxSockets + Cardinality(SlotTags))
Objects == Sockets \cup Slots

\* Mutant of IsWebSocket: every member of a set is taken for a socket.
IsWebSocketAlways(c) == TRUE

\* client instanceof WebSocket (index.ts:282): a placeholder is a plain object.
IsWebSocket(c) == c \in Sockets

VARIABLES
  clients,       \* the fields of every WebSocketClient object (index.ts:8-12)
  userChannels,  \* Map droplertId -> Set of clients
  apiKeys,       \* Map droplertId -> api key
  ev             \* what the last handler answered and sent

vars == <<clients, userChannels, apiKeys, ev>>

(* ----------------------- JavaScript Map and Set ----------------------- *)
\* A Set of clients is a set; a Map is a function whose domain is the keys
\* it holds.  JavaScript visits both in insertion order; the model keeps no
\* order, and the loops of the handlers visit in the order of SeqOf (the
\* outcome of none of them depends on the order: see OrderIrrelevant).
MapHas(m, k) == k \in DOMAIN m
MapGet(m, k) == m[k]
MapSet(m, k, v) == [x \in DOMAIN m \cup {k} |-> IF x = k THEN v ELSE m[x]]
MapDelete(m, k) == [x \in DOMAIN m \ {k} |-> m[x]]
EmptyMap == [x \in {} |-> {}]

\* F applied to the value of v, v being evaluated once.
Bind(v, F(_)) == CHOOSE r \in {F(x) : x \in {v}} : TRUE

\* The members of a finite set of strings or numbers as a sequence.
RECURSIVE SeqOf(_)
SeqOf(S) ==
  IF S = {} THEN <<>>
  ELSE Bind(CHOOSE y \in S : TRUE, LAMBDA x : <<x>> \o SeqOf(S \ {x}))

RECURSIVE Reverse(_)
Reverse(s) == IF s = <<>> THEN <<>> ELSE Append(Reverse(Tail(s)), Head(s))

\* The placeholder object of a (droplertId, websiteUrl) pair.
SlotTagSeq == SeqOf(SlotTags)
SlotOf(d, u) ==
  MaxSockets + (CHOOSE i \in 1..Len(SlotTagSeq) : SlotTagSeq[i] = <<d, u>>)

Ordered(S, rev) == IF rev THEN Reverse(SeqOf(S)) ELSE SeqOf(S)

SeqRange(s) == {s[i] : i \in 1..Len(s)}

\* The sets of the registry that hold client c.
ChannelsOf(m, c) == {k \in DOMAIN m : c \in m[k]}
Registered(m, c) == ChannelsOf(m, c) # {}

(* --------------------------- client objects --------------------------- *)
\* An object that does not exist yet.
NoClient ==
  [readyState |-> "NONE", isAlive |-> FALSE,
   droplertId |-> Undefined, websiteUrl |-> Undefined]

Exists(c) == clients[c].readyState # "NONE"

\* ev when nothing has been handled yet, and the fields every handler fills.
NoEvent ==
  [op |-> "init", ws |-> 0, droplertId |-> Undefined,
   websiteUrl |-> Undefined, apiKey |-> Undefined, websites |-> <<>>,
   status |-> 0, reply |-> "", sent |-> <<>>, pinged |-> {}, removed |-> {}]

Init ==
  /\ clients = [c \in Objects |-> NoClient]
  /\ userChannels = EmptyMap
  /\ apiKeys = [d \in DroplertIds |-> Undefined]
  /\ ev = NoEvent

(* ------------------------------ registry ------------------------------ *)
\* Mutant of removeConnection: the entry of an emptied set is kept.
removeConnectionKeepEmpty(channels, cls, c) ==
  IF Truthy(cls[c].droplertId) /\ MapHas(channels, cls[c].droplertId)
    THEN MapSet(channels, cls[c].droplertId,
                MapGet(channels, cls[c].droplertId) \ {c})
    ELSE channels

\* Mutant of removeConnection: the size is tested before ws is deleted.
removeConnectionSizeFirst(channels, cls, c) ==
  IF Truthy(cls[c].droplertId) /\ MapHas(channels, cls[c].droplertId)
    THEN LET d == cls[c].droplertId
         IN  IF Cardinality(MapGet(channels, d)) = 0
               THEN MapDelete(channels, d)
               ELSE MapSet(channels, d, MapGet(channels, d) \ {c})
    ELSE channels

\* removeConnection (index.ts:245-256): delete ws from the set of its current
\* droplertId tag, and delete the entry when that set became empty.  A tag
\* that is undefined or "" is falsy and makes the call a no-op.
removeConnection(channels, cls, c) ==
  IF Truthy(cls[c].droplertId) /\ MapHas(channels, cls[c].droplertId)
    THEN LET d == cls[c].droplertId
             userClients == MapGet(channels, d) \ {c}
         IN  IF Cardinality(userClients) = 0
               THEN MapDelete(channels, d)
               ELSE MapSet(channels, d, userClients)
    ELSE channels

\* Mutant of addToChannel: the set of a missing key is not created.
addToChannelNoCreate(channels, d, c) ==
  IF MapHas(channels, d)
    THEN MapSet(channels, d, MapGet(channels, d) \cup {c})
    ELSE channels

\* handleSubscription (index.ts:138-144): create the set when the key is
\* missing, then add ws to it.
addToChannel(channels, d, c) ==
  LET ensured == IF ~MapHas(channels, d) THEN MapSet(channels, d, {})
                 ELSE channels
  IN  MapSet(ensured, d, MapGet(ensured, d) \cup {c})

\* handleSubscription (index.ts:135-136): tag the socket.
tagClient(cls, c, d, u) ==
  [cls EXCEPT ![c].droplertId = d, ![c].websiteUrl = u]

(* ----------------------------- dispatcher ----------------------------- *)
\* Mutant of shouldSend: the readyState test is missing.
shouldSendAnyState(cls, c, websites) ==
  /\ Truthy(cls[c].websiteUrl)
  /\ cls[c].websiteUrl \in SeqRange(websites)

\* The filter of handleNotification (index.ts:175-179).
shouldSend(cls, c, websites) ==
  /\ cls[c].readyState = "OPEN"
  /\ Truthy(cls[c].websiteUrl)
  /\ cls[c].websiteUrl \in SeqRange(websites)

\* userClients.forEach (index.ts:174-188): the clients client.send is called
\* on, one call per visited member that passes the filter.
notifyRecipients(channels, cls, d, websites) ==
  SelectSeq(SeqOf(MapGet(channels, d)),
            LAMBDA c : shouldSend(cls, c, websites))

\* Mutant of noSubscribers: the not-found check is missing.
noSubscribersNever(channels, d) == FALSE

\* if (!userClients) (index.ts:164-165): Map.get found no set.
noSubscribers(channels, d) == ~MapHas(channels, d)

\* Mutant of notifyResponse: the dispatch is refused when the credential
\* store holds no key for the account.
notifyResponseGated(channels, cls, d, websites) ==
  IF apiKeys[d] = Undefined
    THEN [status |-> 401, sent |-> <<>>]
  ELSE IF ~MapHas(channels, d)
    THEN [status |-> 404, sent |-> <<>>]
  ELSE [status |-> 200,
        sent |-> SelectSeq(SeqOf(MapGet(channels, d)),
                           LAMBDA c : shouldSend(cls, c, websites))]

\* What handleNotification answers to a well-formed body and the clients it
\* sends the frame to (index.ts:164-198).  forEach on a missing set would
\* throw a TypeError, which the catch block answers with 500.
notifyResponse(channels, cls, d, websites) ==
  IF noSubscribers(channels, d)
    THEN [status |-> 404, sent |-> <<>>]
  ELSE IF ~MapHas(channels, d)
    THEN [status |-> 500, sent |-> <<>>]
  ELSE [status |-> 200,
        sent |-> notifyRecipients(channels, cls, d, websites)]

(* -------------------------- credential store -------------------------- *)
\* Mutant of storeApiKey: a key that is already stored is kept.
storeApiKeyFirstWins(keys, d, apiKey) ==
  IF keys[d] = Undefined THEN [keys EXCEPT ![d] = apiKey] ELSE keys

\* storeApiKey (index.ts:266-268): Map.set overwrites.
storeApiKey(keys, d, apiKey) == [keys EXCEPT ![d] = apiKey]

\* verifyApiKey (index.ts:258-264): Map.get(droplertId) === apiKey.
verifyApiKey(keys, apiKey, d) == keys[d] = apiKey

(* --------------------------- liveness monitor ------------------------- *)
\* The body of the inner forEach callback of cleanup (index.ts:274-288).
\* st carries the registry, the client fields, and the sets of clients
\* pinged and of clients removeConnection was called on.  client.ping() on a
\* socket that is not OPEN reports the error to its callback only; cleanup
\* passes none, so the call has no further effect.
cleanupClient(st, c) ==
  IF ~st.cls[c].isAlive
    THEN [st EXCEPT !.channels = removeConnection(st.channels, st.cls, c),
                    !.removed = @ \cup {c}]
    ELSE IF IsWebSocket(c)
           THEN [st EXCEPT !.cls[c].isAlive = FALSE, !.pinged = @ \cup {c}]
           ELSE st

\* clients.forEach (index.ts:274): visit the members the set had when the
\* loop started and still has when their turn comes.
RECURSIVE cleanupClients(_, _, _, _)
cleanupClients(st, k, members, i) ==
  IF i > Len(members) THEN st
  ELSE LET present == MapHas(st.channels, k)
                      /\ members[i] \in MapGet(st.channels, k)
       IN  Bind(IF present THEN cleanupClient(st, members[i]) ELSE st,
                LAMBDA next : cleanupClients(next, k, members, i + 1))

\* userChannels.forEach (index.ts:273): visit the entries the map had when
\* the loop started and still has when their turn comes (an entry deleted by
\* an earlier removeConnection is skipped).  rev reverses both visiting
\* orders.
RECURSIVE cleanupChannels(_, _, _, _)
cleanupChannels(st, keys, i, rev) ==
  IF i > Len(keys) THEN st
  ELSE Bind(IF MapHas(st.channels, keys[i])
              THEN Bind(Ordered(MapGet(st.channels, keys[i]), rev),
                        LAMBDA members :
                          cleanupClients(st, keys[i], members, 1))
              ELSE st,
            LAMBDA next : cleanupChannels(next, keys, i + 1, rev))

cleanupOrdered(channels, cls, rev) ==
  Bind(Ordered(DOMAIN channels, rev),
       LAMBDA keys :
         cleanupChannels(
           [channels |-> channels, cls |-> cls, pinged |-> {}, removed |-> {}],
           keys, 1, rev))

\* One run of cleanup (index.ts:270-290).
cleanupRun(channels, cls) == cleanupOrdered(channels, cls, FALSE)

(* ------------------------------- inputs ------------------------------- *)
\* The `websites` arrays of the modelled requests.
SiteLists == UNION {[1..n -> WebsiteUrls] : n \in 0..MaxSites}

\* A property of a JSON body: a string, or missing.
OptDroplertIds == DroplertIds \cup {Undefined}
OptWebsiteUrls == WebsiteUrls \cup {Undefined}

\* SubscriptionMessageSchema.parse (index.ts:45-49, 110).
ValidSubscription(action, d, u) ==
  action = "subscribe" /\ d # Undefined /\ u # Undefined

(* ------------------------------ handlers ------------------------------ *)
\* wsServer 'connection' (index.ts:103-105): a new socket, isAlive = true.
\* The new object takes the first free place of the pool.
handleConnection(c) ==
  /\ c \in Sockets
  /\ ~Exists(c)
  /\ \A b \in Sockets : b < c => Exists(b)
  /\ clients' = [clients EXCEPT ![c] =
        [readyState |-> "OPEN", isAlive |-> TRUE,
         droplertId |-> Undefined, websiteUrl |-> Undefined]]
  /\ ev' = [NoEvent EXCEPT !.op = "connection", !.ws = c]
  /\ UNCHANGED <<userChannels, apiKeys>>

\* handleSubscription (index.ts:129-153), called by the message handler.
handleSubscription(c, d, u) ==
  /\ clients' = tagClient(clients, c, d, u)
  /\ userChannels' = addToChannel(userChannels, d, c)
  /\ ev' = [NoEvent EXCEPT !.op = "message", !.ws = c, !.droplertId = d,
                           !.websiteUrl = u, !.reply = "success"]
  /\ UNCHANGED apiKeys

\* Mutant of rejectSubscription: the socket is closed after the error frame.
rejectSubscriptionAndClose(c) ==
  /\ ev' = [NoEvent EXCEPT !.op = "message", !.ws = c, !.reply = "error"]
  /\ clients' = [clients EXCEPT ![c].readyState = "CLOSED"]
  /\ UNCHANGED <<userChannels, apiKeys>>

\* The catch block of the message handler (index.ts:112-115): the error frame
\* is sent on the same socket and nothing else is done.
rejectSubscription(c) ==
  /\ ev' = [NoEvent EXCEPT !.op = "message", !.ws = c, !.reply = "error"]
  /\ UNCHANGED <<clients, userChannels, apiKeys>>

\* ws 'message' (index.ts:107-116): parse, then subscribe or answer with the
\* error frame.
onMessage(c) ==
  /\ c \in Sockets
  /\ clients[c].readyState = "OPEN"
  /\ \E action \in {"subscribe", "unsubscribe"},
        d \in OptDroplertIds, u \in OptWebsiteUrls :
        /\ action = "unsubscribe" => d = Undefined /\ u = Undefined
        /\ IF ValidSubscription(action, d, u)
             THEN handleSubscription(c, d, u)
             ELSE rejectSubscription(c)

\* ws 'pong' (index.ts:118-121).
onPong(c) ==
  /\ c \in Sockets
  /\ clients[c].readyState = "OPEN"
  /\ clients' = [clients EXCEPT ![c].isAlive = TRUE]
  /\ ev' = [NoEvent EXCEPT !.op = "pong", !.ws = c]
  /\ UNCHANGED <<userChannels, apiKeys>>

\* ws 'close' (index.ts:123-126): readyState is CLOSED when the event fires.
\* No event fires on a closed socket any more, so once no set holds it the
\* object is unreachable garbage and its place in the pool is free again.
onClose(c) ==
  /\ c \in Sockets
  /\ clients[c].readyState = "OPEN"
  /\ userChannels' = removeConnection(userChannels, clients, c)
  /\ clients' = IF Registered(userChannels', c)
                  THEN [clients EXCEPT ![c].readyState = "CLOSED"]
                  ELSE [clients EXCEPT ![c] = NoClient]
  /\ ev' = [NoEvent EXCEPT !.op = "close", !.ws = c,
                           !.droplertId = clients[c].droplertId,
                           !.removed = {c}]
  /\ UNCHANGED apiKeys

\* POST /notify (index.ts:156-200).  A body without droplertId fails
\* NotificationPayloadSchema.parse and is answered 400.
handleNotification ==
  \E d \in OptDroplertIds, websites \in SiteLists :
    /\ d = Undefined => websites = <<>>
    /\ ev' = IF d = Undefined
               THEN [NoEvent EXCEPT !.op = "notify", !.status = 400]
               ELSE LET r == notifyResponse(userChannels, clients, d, websites)
                    IN  [NoEvent EXCEPT !.op = "notify", !.droplertId = d,
                           !.websites = websites, !.status = r.status,
                           !.sent = r.sent]
    /\ UNCHANGED <<clients, userChannels, apiKeys>>

\* Mutant of newPlaceholder: the object looks like an open socket.
newPlaceholderOpen(d, u) ==
  [readyState |-> "OPEN", isAlive |-> TRUE, droplertId |-> d, websiteUrl |-> u]

\* The object POST /set adds to the set (index.ts:226): a plain object with
\* the three fields and no readyState.
newPlaceholder(d, u) ==
  [readyState |-> Undefined, isAlive |-> TRUE,
   droplertId |-> d, websiteUrl |-> u]

\* Mutant of setApiKey: the key is stored before the body is parsed.
setApiKeyStoreFirst ==
  \E apiKey \in ApiKeys \cup {Undefined},
     d \in OptDroplertIds, u \in SlotUrls \cup {Undefined} :
    /\ ~Truthy(apiKey) => d = Undefined /\ u = Undefined
    /\ IF ~Truthy(apiKey)
         THEN /\ ev' = [NoEvent EXCEPT !.op = "set", !.status = 401]
              /\ UNCHANGED <<clients, userChannels, apiKeys>>
       ELSE IF d = Undefined \/ u = Undefined
         THEN /\ ev' = [NoEvent EXCEPT !.op = "set", !.status = 400]
              /\ apiKeys' = IF d = Undefined THEN apiKeys
                             ELSE storeApiKey(apiKeys, d, apiKey)
              /\ UNCHANGED <<clients, userChannels>>
       ELSE LET newClient == SlotOf(d, u)
            IN  /\ apiKeys' = storeApiKey(apiKeys, d, apiKey)
                /\ clients' = [clients EXCEPT ![newClient] =
                                                 newPlaceholder(d, u)]
                /\ userChannels' = addToChannel(userChannels, d, newClient)
                /\ ev' = [NoEvent EXCEPT !.op = "set", !.ws = newClient,
                            !.droplertId = d, !.websiteUrl = u,
                            !.apiKey = apiKey, !.status = 200]

\* POST /set (index.ts:204-243): 401 without the apikey header, 400 when
\* the body fails SetApiKeySchema.parse; otherwise store the key and add a
\* placeholder object to the account's set.
setApiKey ==
  \E apiKey \in ApiKeys \cup {Undefined},
     d \in OptDroplertIds, u \in SlotUrls \cup {Undefined} :
    /\ ~Truthy(apiKey) => d = Undefined /\ u = Undefined
    /\ IF ~Truthy(apiKey)
         THEN /\ ev' = [NoEvent EXCEPT !.op = "set", !.status = 401]
              /\ UNCHANGED <<clients, userChannels, apiKeys>>
       ELSE IF d = Undefined \/ u = Undefined
         THEN /\ ev' = [NoEvent EXCEPT !.op = "set", !.status = 400]
              /\ UNCHANGED <<clients, userChannels, apiKeys>>
       ELSE LET newClient == SlotOf(d, u)
            IN  /\ apiKeys' = storeApiKey(apiKeys, d, apiKey)
                /\ clients' = [clients EXCEPT ![newClient] =
                                                 newPlaceholder(d, u)]
                /\ userChannels' = addToChannel(userChannels, d, newClient)
                /\ ev' = [NoEvent EXCEPT !.op = "set", !.ws = newClient,
                            !.droplertId = d, !.websiteUrl = u,
                            !.apiKey = apiKey, !.status = 200]

\* setInterval(() => this.cleanup(), 30000) (index.ts:100, 270-290).
cleanup ==
  \E st \in {cleanupRun(userChannels, clients)} :
      /\ userChannels' = st.channels
      /\ clients' = st.cls
      /\ ev' = [NoEvent EXCEPT !.op = "cleanup", !.pinged = st.pinged,
                              !.removed = st.removed]
      /\ UNCHANGED apiKeys

Next ==
  \/ \E c \in Sockets : handleConnection(c)
  \/ \E c \in Sockets : onMessage(c)
  \/ \E c \in Sockets : onPong(c)
  \/ \E c \in Sockets : onClose(c)
  \/ handleNotification
  \/ setApiKey
  \/ cleanup

Spec == Init /\ [][Next]_vars

\* The connection events and the sweep alone, with the timer of
\* index.ts:100 firing again and again and every open transport closing at
\* some time.  Every behaviour of FairSpec is a behaviour of Spec.
ConnNext ==
  \/ \E c \in Sockets : handleConnection(c)
  \/ \E c \in Sockets : onMessage(c)
  \/ \E c \in Sockets : onPong(c)
  \/ \E c \in Sockets : onClose(c)
  \/ cleanup

FairSpec ==
  /\ Init /\ [][ConnNext]_vars
  /\ WF_vars(cleanup)
  /\ \A c \in Sockets : WF_vars(onClose(c))

(* --------------------------- model soundness -------------------------- *)
\* The registry and the client fields a sweep leaves behind, and the clients
\* it pings and unregisters, do not depend on the visiting order.
OrderIrrelevant ==
  cleanupOrdered(userChannels, clients, TRUE)
    = cleanupOrdered(userChannels, clients, FALSE)

TypeOK ==
  /\ DOMAIN userChannels \subseteq DroplertIds
  /\ \A k \in DOMAIN userChannels : userChannels[k] \subseteq Objects
  /\ \A k \in DOMAIN userChannels : \A c \in userChannels[k] : Exists(c)
  /\ \A c \in Sockets :
       clients[c].readyState \in {"NONE", "OPEN", "CLOSED"}
  /\ \A d \in DroplertIds : apiKeys[d] \in ApiKeys \cup {Undefined}

(* ================================ claims =============================== *)
\* The last handler was POST /notify with a well-formed body.
Dispatched == ev.op = "notify" /\ ev.status # 400

\* How many frames the last dispatch sent to client c.
FramesTo(c) == Cardinality({i \in 1..Len(ev.sent) : ev.sent[i] = c})

\* The members of the addressed account's set whose origin is on the list.
Matching ==
  {c \in userChannels[ev.droplertId] :
     clients[c].websiteUrl \in SeqRange(ev.websites)}

\* C1: a well-formed dispatch to an account that has no entry in the
\* registry is answered 404 and sends no frame.  (handleNotification leaves
\* the registry as it found it, so the registry of the state is the one the
\* dispatch looked at.)
C1_NoSubscribersNotFound ==
  (Dispatched /\ ~MapHas(userChannels, ev.droplertId))
    => (ev.status = 404 /\ ev.sent = <<>>)

C1_Witness ==
  /\ Dispatched /\ ev.status = 404
  /\ ~MapHas(userChannels, ev.droplertId)
  /\ \E c \in Sockets : clients[c].readyState = "OPEN"
                         /\ clients[c].websiteUrl \in SeqRange(ev.websites)

\* C2: after a dispatch to an account that has an entry, every member of the
\* account's set got exactly one frame if its transport is open and its
\* origin is on the target list, and no frame otherwise.
C2_DeliveredIffOpenAndListed ==
  (Dispatched /\ MapHas(userChannels, ev.droplertId))
    => \A c \in userChannels[ev.droplertId] :
         IF clients[c].readyState = "OPEN" /\ c \in Matching
           THEN FramesTo(c) = 1
           ELSE FramesTo(c) = 0

\* C3: a well-formed dispatch to an account that has an entry is answered
\* 200 whatever the filter let through; when no member whose origin is on
\* the list has an open transport, no frame is sent.
C3_SuccessOnceLookupSucceeded ==
  (Dispatched /\ MapHas(userChannels, ev.droplertId))
    => /\ ev.status = 200
       /\ (\A c \in Matching : clients[c].readyState # "OPEN")
            => ev.sent = <<>>

C3_Witness ==
  /\ Dispatched /\ MapHas(userChannels, ev.droplertId)
  /\ ev.status = 200 /\ ev.sent = <<>>
  /\ \E c \in Matching \cap Sockets : clients[c].readyState = "CLOSED"
  /\ \A c \in Matching : clients[c].readyState # "OPEN"

\* Client c is a member of the set of its current droplertId tag.
InOwnChannel(m, cls, c) ==
  MapHas(m, cls[c].droplertId) /\ c \in m[cls[c].droplertId]

\* C4: a connection that has not answered its probe (its alive flag is still
\* false when the next sweep starts) is in no set of the registry after that
\* sweep.
C4_DeadEvictedOnNextSweep ==
  [][ev'.op = "cleanup"
       => \A c \in Sockets :
            (Registered(userChannels, c) /\ ~clients[c].isAlive)
              => ~Registered(userChannels', c)]_vars

\* C5: an open connection that has answered every probe (its alive flag is
\* true) and is a member of the set of its current account is still a member
\* of the set of its current account after any step that does not close it.
C5_ResponsiveNeverEvicted ==
  [][\A c \in Sockets :
       (/\ clients[c].readyState = "OPEN" /\ clients[c].isAlive
        /\ InOwnChannel(userChannels, clients, c)
        /\ clients'[c].readyState = "OPEN")
         => InOwnChannel(userChannels', clients', c)]_vars

\* C6: every client is in at most one set of the registry, the one keyed by
\* its current droplertId tag.
C6_AtMostOneChannel ==
  \A c \in Objects :
    /\ Cardinality(ChannelsOf(userChannels, c)) <= 1
    /\ ChannelsOf(userChannels, c) \subseteq {clients[c].droplertId}

\* C7: no key of the registry maps to an empty set.
C7_NoEmptyChannel ==
  \A k \in DOMAIN userChannels : userChannels[k] # {}

\* A removal has just emptied a set: the sweep unregistered a socket that
\* no set holds any more, and the account of its tag has no entry.
C7_Witness ==
  /\ ev.op = "cleanup"
  /\ \E c \in ev.removed \ ev.pinged :
       /\ Truthy(clients[c].droplertId)
       /\ ~MapHas(userChannels, clients[c].droplertId)
       /\ ~Registered(userChannels, c)

\* removeConnection has been called on socket c since it last subscribed: its
\* close event fired, or a sweep took it out of the set of its tag.
Unregistered(c) ==
  clients[c].readyState = "CLOSED" \/ ~InOwnChannel(userChannels, clients, c)

\* C8: an account all of whose registered connections have been unregistered
\* (by their close event or by the sweep) has no entry in the registry: the
\* set of an account that has an entry holds a placeholder or a socket that
\* has not been unregistered.
C8_AbsentOnceAllUnregistered ==
  \A k \in DOMAIN userChannels :
    \E c \in userChannels[k] : c \in Slots \/ ~Unregistered(c)

\* C9: in every state and for every existing client, a second call of
\* removeConnection changes nothing the first call left, and a call on a
\* client without droplertId tag changes nothing.
C9_RemoveIdempotent ==
  \A c \in Objects :
    Exists(c) =>
      LET once == removeConnection(userChannels, clients, c)
      IN  /\ removeConnection(once, clients, c) = once
          /\ clients[c].droplertId = Undefined => once = userChannels

\* A sweep has called removeConnection on a tagged socket that was a member
\* of a set with another member; a second call leaves the registry alone.
C9_Witness ==
  /\ ev.op = "cleanup"
  /\ \E c \in (ev.removed \ ev.pinged) \cap Sockets :
       /\ MapHas(userChannels, clients[c].droplertId)
       /\ userChannels[clients[c].droplertId] \cap Sockets # {}
       /\ ~Registered(userChannels, c)
       /\ removeConnection(userChannels, clients, c) = userChannels

\* Socket c is a stale member of the set of account k: it is in the set and
\* its tag names another account.
Stale(c, k) ==
  MapHas(userChannels, k) /\ c \in userChannels[k]
    /\ clients[c].droplertId # k

\* C10: a stale reference left by a second subscribe is eventually removed
\* from the old account's set, given that sweeps keep running and open
\* transports close.
C10_StaleEventuallyRemoved ==
  \A c \in Sockets : \A k \in DroplertIds :
    Stale(c, k) ~> ~(MapHas(userChannels, k) /\ c \in userChannels[k])

\* The last handler was POST /set and it answered success.
SetSucceeded == ev.op = "set" /\ ev.status = 200

C12_InvalidSubscribeChangesNothing ==
  [][(ev'.op = "message" /\ ev'.reply = "error")
       => /\ UNCHANGED <<clients, userChannels, apiKeys>>
          /\ clients'[ev'.ws].readyState = "OPEN"]_vars

\* An invalid message has been answered on a socket that is subscribed and
\* whose probe is unanswered: the tag, the membership and the alive flag are
\* those the earlier handlers left.
C12_Witness ==
  /\ ev.op = "message" /\ ev.reply = "error"
  /\ clients[ev.ws].readyState = "OPEN"
  /\ Truthy(clients[ev.ws].droplertId)
  /\ InOwnChannel(userChannels, clients, ev.ws)
  /\ ~clients[ev.ws].isAlive

\* C13: a POST /set that is answered 401 or 400 leaves the credential store,
\* the registry and every client as they were; one that is answered 200 has
\* stored the key of the request for its account and the account's set holds
\* the placeholder.  POST /set answers nothing else.
C13_RejectedSetChangesNothing ==
  [][ev'.op = "set"
       => IF ev'.status = 200
            THEN /\ apiKeys'[ev'.droplertId] = ev'.apiKey
                 /\ ev'.ws \in Slots
                 /\ InOwnChannel(userChannels', clients', ev'.ws)
            ELSE /\ ev'.status \in {400, 401}
                 /\ UNCHANGED <<clients, userChannels, apiKeys>>]_vars

\* A POST /set has been rejected 400 while the store and the registry held
\* something to lose.
C13_Witness ==
  /\ ev.op = "set" /\ ev.status = 400
  /\ \E d \in DroplertIds : apiKeys[d] # Undefined
  /\ \E k \in DOMAIN userChannels : userChannels[k] \cap Sockets # {}

\* C14: no dispatch sends a frame to a placeholder.
C14_PlaceholderNeverReceives ==
  Dispatched => \A i \in 1..Len(ev.sent) : ev.sent[i] \notin Slots

\* A dispatch whose target list names the origin of a placeholder of the
\* addressed account has sent a frame to a socket and none to the placeholder.
C14_Witness ==
  /\ Dispatched /\ ev.status = 200
  /\ \E c \in userChannels[ev.droplertId] \cap Slots :
       clients[c].websiteUrl \in SeqRange(ev.websites)
  /\ ev.sent # <<>>
  /\ \A i \in 1..Len(ev.sent) : ev.sent[i] \in Sockets

\* C15: the answer of a well-formed dispatch and the clients it sends to are
\* a function of the request, the registry and the fields of the clients
\* alone: two states that agree on these and differ in the credential store
\* give the same answer and the same recipients.
C15_DispatchIgnoresCredentials ==
  [][(ev'.op = "notify" /\ ev'.status # 400)
       => IF ev'.droplertId \in DOMAIN userChannels
            THEN /\ ev'.status = 200
                 /\ SeqRange(ev'.sent) =
                      {c \in userChannels[ev'.droplertId] :
                         /\ clients[c].readyState = "OPEN"
                         /\ Truthy(clients[c].websiteUrl)
                         /\ clients[c].websiteUrl \in SeqRange(ev'.websites)}
            ELSE ev'.status = 404 /\ ev'.sent = <<>>]_vars

\* A dispatch has sent a frame for an account no key is stored for, while a
\* key is stored for another account.
C15_Witness ==
  /\ Dispatched /\ ev.status = 200 /\ ev.sent # <<>>
  /\ apiKeys[ev.droplertId] = Undefined
  /\ \E d \in DroplertIds : apiKeys[d] # Undefined

\* C16: after a valid subscribe {droplertId d, websiteUrl u} on socket c, c is
\* tagged d and u, the set of d exists and is the set it was (empty if d had
\* no entry) with c added, so that c is a member once, and the success frame
\* was sent on c.
C16_SubscribeTagsAndRegisters ==
  [][(ev'.op = "message" /\ ev'.reply = "success")
       => LET c == ev'.ws
              d == ev'.droplertId
              before == IF MapHas(userChannels, d) THEN userChannels[d] ELSE {}
          IN  /\ clients'[c].droplertId = d
              /\ clients'[c].websiteUrl = ev'.websiteUrl
              /\ MapHas(userChannels', d)
              /\ userChannels'[d] = before \cup {c}
              /\ c \in before => userChannels' = userChannels]_vars

\* A subscribe has been handled on a socket whose account's set holds
\* another socket too.
C16_Witness ==
  /\ ev.op = "message" /\ ev.reply = "success"
  /\ clients[ev.ws].droplertId = ev.droplertId
  /\ clients[ev.ws].websiteUrl = ev.websiteUrl
  /\ ev.ws \in userChannels[ev.droplertId]
  /\ (userChannels[ev.droplertId] \cap Sockets) \ {ev.ws} # {}

\* C17: in one run of the sweep every socket that is in a set of the
\* registry takes exactly one branch: its alive flag was false, and it is
\* unregistered and not pinged; or its alive flag was true, and the flag is
\* set to false and it is pinged and not unregistered.  The alive flag of an
\* existing socket goes from false to true in its pong handler only.
C17_OneBranchPerCycle ==
  [][/\ ev'.op = "cleanup"
          => \A c \in Sockets :
               Registered(userChannels, c)
                 => IF ~clients[c].isAlive
                      THEN c \in ev'.removed /\ c \notin ev'.pinged
                      ELSE /\ ~clients'[c].isAlive
                           /\ c \in ev'.pinged /\ c \notin ev'.removed
     /\ \A c \in Sockets :
          (Exists(c) /\ ~clients[c].isAlive /\ clients'[c].isAlive)
            => ev'.op = "pong" /\ ev'.ws = c]_vars

\* C18: every client a dispatch addressed to account d sends a frame to is
\* tagged d (handleNotification changes no tag, so the tag of the state is
\* the tag at the time of the send); a client without tag gets no frame.
C18_TenantIsolation ==
  Dispatched
    => \A i \in 1..Len(ev.sent) :
         clients[ev.sent[i]].droplertId = ev.droplertId

\* C19: an account a key is stored for (a POST /set has succeeded for it,
\* see C11) has an entry in the registry, its set holds a placeholder whose
\* alive flag is true, and a well-formed dispatch to it is answered 200; no
\* sweep pings or unregisters a placeholder and no close event is about one.
C19_PlaceholderKeepsEntry ==
  /\ \A d \in DroplertIds :
       apiKeys[d] # Undefined
         => /\ MapHas(userChannels, d)
            /\ \E c \in userChannels[d] \cap Slots :
                 clients[c].isAlive /\ clients[c].droplertId = d
            /\ (Dispatched /\ ev.droplertId = d) => ev.status = 200
  /\ (ev.pinged \cup ev.removed) \cap Slots = {}

\* A dispatch to an account whose set holds placeholders only has been
\* answered 200, an open socket of that account having been evicted by a
\* sweep before.
C19_Witness ==
  /\ Dispatched /\ ev.status = 200
  /\ apiKeys[ev.droplertId] # Undefined
  /\ userChannels[ev.droplertId] \subseteq Slots
  /\ \E c \in Sockets :
       /\ clients[c].readyState = "OPEN"
       /\ clients[c].droplertId = ev.droplertId
       /\ ~Registered(userChannels, c)

\* Socket c has been evicted by a sweep: its transport is open, it is tagged
\* and the set of its tag does not hold it.  (The close handler is the only
\* other caller of removeConnection, and it leaves the socket closed.)
Evicted(c) ==
  /\ clients[c].readyState = "OPEN"
  /\ Truthy(clients[c].droplertId)
  /\ ~InOwnChannel(userChannels, clients, c)

\* C20: a sweep closes no transport, and as long as an evicted socket sends
\* no new subscribe, no step adds it to a set, no dispatch sends it a frame,
\* and its pong sets the alive flag and nothing else.
C20_EvictedStaysOut ==
  [][/\ ev'.op = "cleanup"
          => \A c \in Sockets : clients'[c].readyState = clients[c].readyState
     /\ \A c \in Sockets :
          (Evicted(c) /\ ~(ev'.op = "message" /\ ev'.ws = c
                             /\ ev'.reply = "success"))
            => /\ ChannelsOf(userChannels', c) \subseteq ChannelsOf(userChannels, c)
               /\ ev'.op = "notify" => c \notin SeqRange(ev'.sent)
               /\ (ev'.op = "pong" /\ ev'.ws = c)
                    => /\ clients'[c] = [clients[c] EXCEPT !.isAlive = TRUE]
                       /\ userChannels' = userChannels]_vars

====
